---- MODULE Spec2Model ----
(***************************************************************************)
(* Model of main_escuelas_mx.py: a Streamlit script that loads a point     *)
(* dataset, filters it by state / municipality, maps it, searches,         *)
(* paginates and exports it.  Streamlit re-executes the whole script on    *)
(* every user interaction, so every action below is one full execution of  *)
(* the script (ScriptRun) on the widget values the interaction leaves.     *)
(*                                                                         *)
(* Representation.  Text is a sequence of one-character strings.  A data   *)
(* frame is a sequence of runs [rec, lo, hi]: the rows with index labels   *)
(* lo..hi (RangeIndex, 0-based), all carrying the attribute values rec.    *)
(* Every operation of the script on rows depends on the attribute values   *)
(* and the position only, so runs are exact and let the model hold frames  *)
(* of more than 10,000 rows.                                               *)
(***************************************************************************)
EXTENDS Integers, Sequences, FiniteSets, TLC

\* ------------------------------------------------------------------ bounds
\* A dataset on disk has at most MaxRuns runs of equal rows.
MaxRuns == 2
\* The numbers a user types into the page input are 0..MaxPageRequest.
MaxPageRequest == 3

\* ------------------------------------------------------------- basic values
Max(a, b) == IF a >= b THEN a ELSE b
Min(a, b) == IF a <= b THEN a ELSE b

\* A missing cell (NaN / None in a column).
NA == <<"#NA">>
\* Python's None as the value of an expression.
PyNone == <<"#None">>

\* Code points of the characters the model's texts are written in.
CharCode ==
    [c \in {"(", ".", ";", "<", "&", "A", "N", "a", "b", "e", "l", "n", "o", "t"} |->
        CASE c = "&" -> 38 [] c = "(" -> 40 [] c = "." -> 46 [] c = ";" -> 59
          [] c = "<" -> 60 [] c = "A" -> 65 [] c = "N" -> 78 [] c = "a" -> 97
          [] c = "b" -> 98 [] c = "e" -> 101 [] c = "l" -> 108 [] c = "n" -> 110
          [] c = "o" -> 111 [] c = "t" -> 116]

\* str.lower on one character.
Lower(c) == CASE c = "A" -> "a" [] c = "N" -> "n" [] OTHER -> c

\* Python's < on str: lexicographic by code point.
RECURSIVE TextLess(_, _)
TextLess(s, t) ==
    IF t = <<>> THEN FALSE
    ELSE IF s = <<>> THEN TRUE
    ELSE IF Head(s) = Head(t) THEN TextLess(Tail(s), Tail(t))
    ELSE CharCode[Head(s)] < CharCode[Head(t)]

\* sorted(...) of a set of distinct texts.
RECURSIVE Sorted(_)
Sorted(S) ==
    IF S = {} THEN <<>>
    ELSE LET m == CHOOSE x \in S : \A y \in S \ {x} : TextLess(x, y)
         IN  <<m>> \o Sorted(S \ {m})

\* bool(x) of a selectbox value: None and "" are falsy.
Truthy(v) == v # PyNone /\ v # <<>>

\* ------------------------------------------------------------------ frames
Range(f) == {f[i] : i \in DOMAIN f}

RunLen(r) == r.hi - r.lo + 1

\* len(df)
RECURSIVE Count(_)
Count(df) == IF df = <<>> THEN 0 ELSE RunLen(Head(df)) + Count(Tail(df))

\* df.iloc[start:stop] for 0 <= start: the rows at positions start..stop-1.
RECURSIVE ISlice(_, _, _)
ISlice(df, start, stop) ==
    IF df = <<>> \/ stop <= 0 THEN <<>>
    ELSE LET r == Head(df)
             n == RunLen(r)
             a == Max(start, 0)
             b == Min(stop, n)
             part == IF a < b
                     THEN <<[rec |-> r.rec, lo |-> r.lo + a, hi |-> r.lo + b - 1]>>
                     ELSE <<>>
         IN  part \o ISlice(Tail(df), start - n, stop - n)

\* df.head(n)
DfHead(df, n) == ISlice(df, 0, n)

\* The index labels of the rows of a frame, as a set of intervals.
RowIds(df) == [i \in DOMAIN df |-> <<df[i].lo, df[i].hi>>]

\* The index label of the row at 0-based position p < len(df).
RECURSIVE LabelAt(_, _)
LabelAt(df, p) ==
    IF p < RunLen(Head(df)) THEN Head(df).lo + p
    ELSE LabelAt(Tail(df), p - RunLen(Head(df)))

\* Rows appended to rows; a run that continues the last one is joined to it.
DfConcat(d1, d2) ==
    IF d1 = <<>> THEN d2
    ELSE IF d2 = <<>> THEN d1
    ELSE LET l == d1[Len(d1)]
             f == d2[1]
         IN  IF l.rec = f.rec /\ f.lo = l.hi + 1
             THEN SubSeq(d1, 1, Len(d1) - 1)
                  \o <<[rec |-> l.rec, lo |-> l.lo, hi |-> f.hi]>>
                  \o Tail(d2)
             ELSE d1 \o d2

\* geometry.y.sum() and geometry.x.sum() over the rows.
RECURSIVE SumLat(_)
SumLat(df) ==
    IF df = <<>> THEN 0 ELSE Head(df).rec.lat * RunLen(Head(df)) + SumLat(Tail(df))

RECURSIVE SumLon(_)
SumLon(df) ==
    IF df = <<>> THEN 0 ELSE Head(df).rec.lon * RunLen(Head(df)) + SumLon(Tail(df))

RECURSIVE Gcd(_, _)
Gcd(a, b) == IF b = 0 THEN a ELSE Gcd(b, a % b)

Abs(x) == IF x < 0 THEN -x ELSE x

\* The exact quotient num/den (den > 0) in lowest terms.
Frac(num, den) ==
    LET g == Gcd(Abs(num), den)
    IN  <<num \div g, den \div g>>

\* ---------------------------------------------------------------- datasets
\* Coordinates are whole degrees.
Rec(code, ent, mun, loc, nom, lat, lon) ==
    [name |-> code, nombre_entidad |-> ent, nombre_municipio |-> mun,
     nombre_localidad |-> loc, nombre_de_centro_de_trabajo |-> nom,
     lat |-> lat, lon |-> lon]

\* The rows a dataset is made of: two without a state, three with one.
RecordKinds ==
    { Rec(<<"A">>, NA, NA, NA, <<"a">>, 19, -99),
      Rec(<<"<", "b">>, NA, <<"b">>, NA, NA, 21, -101),
      Rec(<<"A", "b">>, <<"A">>, <<"a">>, <<"b">>, <<"b">>, 17, -96),
      Rec(<<"b">>, <<"A">>, <<"b">>, NA, <<"a">>, 18, -97),
      Rec(<<"a">>, <<"b">>, <<"a">>, <<"a">>, NA, 20, -100) }

\* How many equal rows a run of a dataset has.
RunLengths == {250, 10001}

RunSpecs == [rec : RecordKinds, n : RunLengths]

\* Sequences of at most MaxRuns runs; neighbouring runs differ in their rows.
DatasetShapes ==
    { s \in UNION {[1..k -> RunSpecs] : k \in 0..MaxRuns} :
        \A i \in 1..(Len(s) - 1) : s[i].rec # s[i + 1].rec }

RECURSIVE Offset(_, _)
Offset(s, i) == IF i = 0 THEN 0 ELSE s[i].n + Offset(s, i - 1)

MkFrame(s) ==
    [i \in DOMAIN s |->
        [rec |-> s[i].rec, lo |-> Offset(s, i - 1), hi |-> Offset(s, i) - 1]]

Datasets == {MkFrame(s) : s \in DatasetShapes}

\* ------------------------------------------------------------------- state
VARIABLES
    file,           \* the dataset file on disk: [kind, data]
    na_repr,        \* what astype(str) makes of a missing cell in this build
    load_cache,     \* st.cache_data of load_data
    map_cache,      \* st.cache_data of create_map: a set of [key, map]
    lang,           \* language selectbox
    admin1_sel,     \* state selectbox: the option the session holds
    search_term,    \* search text input
    rows_per_page,  \* rows-per-page selectbox
    page,           \* page number input: the value the session holds
    page_request,   \* page number input: the number shown in the box
    run             \* what the last execution of the script produced

vars == <<file, na_repr, load_cache, map_cache, lang, admin1_sel, search_term,
          rows_per_page, page, page_request, run>>

\* -------------------------------------------------------------- translations
Languages == <<"en", "es">>

\* The entries of TRANSLATIONS the script's logic reads (accents dropped).
TRANSLATIONS ==
    [en |-> [centro_trabajo_codigo |-> "Working center code",
             departamento |-> "State", municipio |-> "Municipality",
             select_first |-> "Select State first",
             locality |-> "Locality", name |-> "School Name",
             click_to_copy |-> "Click to copy code"],
     es |-> [centro_trabajo_codigo |-> "Codigo centro de trabajo",
             departamento |-> "Entidad", municipio |-> "Municipio",
             select_first |-> "Selecciona Entidad primero",
             locality |-> "Localidad", name |-> "Nombre de Escuela",
             click_to_copy |-> "Clic para copiar codigo"]]

\* index=1 of options ['en', 'es']
DefaultLang == Languages[2]

\* ------------------------------------------------------------------ loading
FileKinds == {"parquet", "geojson", "corrupt"}

NoEntry == [present |-> FALSE, gdf |-> <<>>, warned |-> FALSE]

\* load_data that swallows the second failure and returns an empty frame.
load_data_swallowing(f, cache) ==
    IF cache.present
    THEN [ok |-> TRUE, gdf |-> cache.gdf, warning |-> cache.warned,
          path |-> "cached", cache |-> cache]
    ELSE IF f.kind = "parquet"
    THEN [ok |-> TRUE, gdf |-> f.data, warning |-> FALSE, path |-> "primary",
          cache |-> [present |-> TRUE, gdf |-> f.data, warned |-> FALSE]]
    ELSE IF f.kind = "geojson"
    THEN [ok |-> TRUE, gdf |-> f.data, warning |-> TRUE, path |-> "fallback",
          cache |-> [present |-> TRUE, gdf |-> f.data, warned |-> TRUE]]
    ELSE [ok |-> TRUE, gdf |-> <<>>, warning |-> TRUE, path |-> "fallback",
          cache |-> [present |-> TRUE, gdf |-> <<>>, warned |-> TRUE]]

\* load_data behind st.cache_data: a stored value is returned (with the
\* warning it recorded replayed); otherwise the file is read as parquet, on
\* failure a warning is shown and the file is read as a feature collection;
\* if that fails too the exception leaves load_data and nothing is stored.
load_data(f, cache) ==
    IF cache.present
    THEN [ok |-> TRUE, gdf |-> cache.gdf, warning |-> cache.warned,
          path |-> "cached", cache |-> cache]
    ELSE IF f.kind = "parquet"
    THEN [ok |-> TRUE, gdf |-> f.data, warning |-> FALSE, path |-> "primary",
          cache |-> [present |-> TRUE, gdf |-> f.data, warned |-> FALSE]]
    ELSE IF f.kind = "geojson"
    THEN [ok |-> TRUE, gdf |-> f.data, warning |-> TRUE, path |-> "fallback",
          cache |-> [present |-> TRUE, gdf |-> f.data, warned |-> TRUE]]
    ELSE [ok |-> FALSE, gdf |-> <<>>, warning |-> TRUE, path |-> "failed",
          cache |-> cache]

\* ----------------------------------------------------------------- text ops
NaRenderings == {<<"n", "a", "n">>, <<"N", "o", "n", "e">>, NA}

\* DataFrame.astype(str) on one cell.
AsTypeStr(cell) == IF cell = NA THEN na_repr ELSE cell

\* str(value) on one cell.
PyStr(cell) ==
    IF cell = NA THEN (IF na_repr = NA THEN <<"n", "a", "n">> ELSE na_repr) ELSE cell

\* html.escape
RECURSIVE escape(_)
escape(s) ==
    IF s = <<>> THEN <<>>
    ELSE (CASE Head(s) = "<" -> <<"&", "l", "t", ";">>
            [] Head(s) = "&" -> <<"&", "a", "m", "p", ";">>
            [] OTHER -> <<Head(s)>>) \o escape(Tail(s))

\* re.compile(pat): of the characters a search term is typed in, "(" opens a
\* group that is never closed.
RegexCompiles(pat) == \A i \in DOMAIN pat : pat[i] # "("

\* re.search(pat, text, re.IGNORECASE) for a pattern that compiles: "." is
\* any character, every other character of the model's alphabet is itself.
RegexSearch(pat, text) ==
    \E i \in 0..(Len(text) - Len(pat)) :
        \A j \in DOMAIN pat :
            pat[j] = "." \/ Lower(pat[j]) = Lower(text[i + j])

\* Series.str.contains(pat, case=False, na=False) on one cell.
StrContains(cell, pat) == IF cell = NA THEN FALSE ELSE RegexSearch(pat, cell)

display_columns ==
    <<"name", "nombre_entidad", "nombre_municipio", "nombre_localidad",
      "nombre_de_centro_de_trabajo">>

\* The mask of line 302 on one row.
SearchMask(rec, pat) ==
    \E c \in Range(display_columns) : StrContains(AsTypeStr(rec[c]), pat)

\* ----------------------------------------------------------------- widgets
\* st.selectbox(label, options, index=0): the option the session holds while
\* it is one of the options, else the first option; None without options.
selectbox(options, held) ==
    IF options = <<>> THEN PyNone
    ELSE IF held \in Range(options) THEN held
    ELSE options[1]

page_sizes == <<50, 100, 200, 500>>

\* index=1 of options [50, 100, 200, 500]
DefaultRowsPerPage == page_sizes[2]

\* st.number_input(min_value=1, max_value=total_pages, value=1, step=1): the
\* widget is identified by its arguments, so the value held for another
\* max_value is not this widget's and it starts from value=1.
number_input(held, held_max, total_pages) ==
    IF held_max = total_pages THEN held ELSE 1

\* ------------------------------------------------------------ sidebar filter
PyText(v) == [type |-> "str", val |-> v]
PyList(v) == [type |-> "list", val |-> v]

\* Python's a + b on str and list operands: operands of one type are
\* concatenated, str + list raises TypeError.
PyAdd(a, b) ==
    IF a.type = b.type
    THEN [ok |-> TRUE, val |-> a.val \o b.val]
    ELSE [ok |-> FALSE, val |-> <<>>]

\* sorted(gdf[col].dropna().unique().tolist()) for the two region columns.
Departamentos(gdf) ==
    Sorted({gdf[i].rec.nombre_entidad : i \in DOMAIN gdf} \ {NA})

RowsOfState(gdf, admin1) ==
    SelectSeq(gdf, LAMBDA r : r.rec.nombre_entidad = admin1)

RowsOfStateAndMunicipality(gdf, admin1, admin2) ==
    SelectSeq(gdf, LAMBDA r : r.rec.nombre_municipio = admin2
                              /\ r.rec.nombre_entidad = admin1)

\* Line 233: "" + sorted(...municipalities of the rows of admin1...)
Municipios(gdf, admin1) ==
    LET rows == RowsOfState(gdf, admin1)
    IN  PyAdd(PyText(<<>>),
              PyList(Sorted({rows[i].rec.nombre_municipio : i \in DOMAIN rows} \ {NA})))

\* Lines 232-244: [ok, municipios, admin2, filtered_for_map].
SidebarFilter(gdf, admin1) ==
    IF Truthy(admin1)
    THEN LET m == Municipios(gdf, admin1)
             admin2 == selectbox(m.val, PyNone)
         IN  IF ~m.ok
             THEN [ok |-> FALSE, municipios |-> <<>>, admin2 |-> PyNone,
                   filtered_for_map |-> <<>>]
             ELSE [ok |-> TRUE, municipios |-> m.val, admin2 |-> admin2,
                   filtered_for_map |->
                       IF Truthy(admin2)
                       THEN RowsOfStateAndMunicipality(gdf, admin1, admin2)
                       ELSE RowsOfState(gdf, admin1)]
    ELSE [ok |-> TRUE, municipios |-> <<>>, admin2 |-> PyNone,
          filtered_for_map |-> gdf]

\* --------------------------------------------------------------------- map
MAP_LIMIT == 10000

\* Lines 250-252: the frame after the limit.
LimitPoints(df) == IF Count(df) > MAP_LIMIT THEN DfHead(df, MAP_LIMIT) ELSE df

\* 23.6345, -102.5528 as DefaultCenterLat / CenterScale, DefaultCenterLon / CenterScale
DefaultCenterLat == 236345
DefaultCenterLon == -1025528
CenterScale == 10000

\* Lines 260-264: <<center_lat, center_lon>>, each an exact quotient.
Center(df) ==
    IF df # <<>>
    THEN <<Frac(SumLat(df), Count(df)), Frac(SumLon(df), Count(df))>>
    ELSE <<Frac(DefaultCenterLat, CenterScale), Frac(DefaultCenterLon, CenterScale)>>

\* Markers that stops one row before the end of the frame.
MarkersButLast(df) ==
    LET d == ISlice(df, 0, Count(df) - 1)
    IN  [i \in DOMAIN d |->
            [lo |-> d[i].lo, hi |-> d[i].hi,
             location |-> <<d[i].rec.lat, d[i].rec.lon>>,
             code |-> escape(PyStr(d[i].rec.name)),
             school_name |-> escape(PyStr(d[i].rec.nombre_de_centro_de_trabajo))]]

\* Lines 165-203: one CircleMarker per row, with escaped code and name.
Markers(df) ==
    [i \in DOMAIN df |->
        [lo |-> df[i].lo, hi |-> df[i].hi,
         location |-> <<df[i].rec.lat, df[i].rec.lon>>,
         code |-> escape(PyStr(df[i].rec.name)),
         school_name |-> escape(PyStr(df[i].rec.nombre_de_centro_de_trabajo))]]

NoMap == [location |-> <<>>, click_to_copy_text |-> "", markers |-> <<>>]

\* The body of create_map.
BuildMap(gdf, center_lat, center_lon, click_to_copy_text) ==
    [location |-> <<center_lat, center_lon>>,
     click_to_copy_text |-> click_to_copy_text,
     markers |-> Markers(gdf)]

\* st.cache_data leaves the argument _gdf out of the key.
MapKey(gdf, center_lat, center_lon, click_to_copy_text) ==
    <<center_lat, center_lon, click_to_copy_text>>

\* create_map behind st.cache_data: [map, hit, cache].
create_map(cache, gdf, center_lat, center_lon, click_to_copy_text) ==
    LET k == MapKey(gdf, center_lat, center_lon, click_to_copy_text)
    IN  IF \E e \in cache : e.key = k
        THEN [map |-> (CHOOSE e \in cache : e.key = k).map, hit |-> TRUE,
              cache |-> cache]
        ELSE LET m == BuildMap(gdf, center_lat, center_lon, click_to_copy_text)
             IN  [map |-> m, hit |-> FALSE,
                  cache |-> cache \cup {[key |-> k, map |-> m]}]

\* ------------------------------------------------------- table and export
\* Lines 279-292: the frame the table starts from and its display columns.
TableFrame(df) ==
    [i \in DOMAIN df |->
        [rec |-> [c \in Range(display_columns) |-> df[i].rec[c]],
         lo |-> df[i].lo, hi |-> df[i].hi]]

\* Lines 302-303: table_df[mask].
SearchRows(df, pat) == SelectSeq(df, LAMBDA r : SearchMask(r.rec, pat))

\* Line 302 raises re.error when the term does not compile; DataFrame.apply
\* does not call the function on the columns of a frame without rows.
SearchRaises(df, pat) == df # <<>> /\ ~RegexCompiles(pat)

\* TotalPages without the "- 1": one page too many for a full last page.
TotalPagesNoMinusOne(n, rpp) == Max(1, n \div rpp + 1)

\* Line 314
TotalPages(n, rpp) == Max(1, (n - 1) \div rpp + 1)

\* PageSlice with an inclusive end index taken as exclusive.
PageSliceShortEnd(df, rpp, pg) ==
    LET start_idx == (pg - 1) * rpp
        end_idx == Min(start_idx + rpp - 1, Count(df))
    IN  ISlice(df, start_idx, end_idx)

\* Lines 323-325
PageSlice(df, rpp, pg) ==
    LET start_idx == (pg - 1) * rpp
        end_idx == Min(start_idx + rpp, Count(df))
    IN  ISlice(df, start_idx, end_idx)

Header(l) ==
    <<TRANSLATIONS[l].centro_trabajo_codigo, TRANSLATIONS[l].departamento,
      TRANSLATIONS[l].municipio, TRANSLATIONS[l].locality, TRANSLATIONS[l].name>>

\* DataFrame.to_csv(index=False): the header of column labels and one line
\* per row; a missing cell is written as the empty field.  No text of the
\* model holds a comma, a quote or a line break, so no field is quoted.
to_csv(df, l) ==
    [header |-> Header(l),
     lines |-> [i \in DOMAIN df |->
                  [lo |-> df[i].lo, hi |-> df[i].hi,
                   fields |-> [k \in DOMAIN display_columns |->
                                 IF df[i].rec[display_columns[k]] = NA THEN <<>>
                                 ELSE df[i].rec[display_columns[k]]]]]]

NoCsv == [header |-> <<>>, lines |-> <<>>]

\* ------------------------------------------------------------- the script
\* What an execution that has shown nothing yet has produced.
Blank ==
    [stage |-> "init", error |-> "none", load_path |-> "none",
     load_warning |-> FALSE, gdf |-> <<>>, departamentos |-> <<>>,
     admin1 |-> PyNone, municipio_box |-> "none", municipios |-> <<>>,
     admin2 |-> PyNone, points_on_map |-> 0, trunc_warning |-> FALSE,
     filtered_for_map |-> <<>>, center |-> <<>>, map |-> NoMap,
     map_cached |-> FALSE, total_records |-> 0, found_records |-> -1,
     table_df |-> <<>>, total_pages |-> 0, page |-> 0, paginated_df |-> <<>>,
     csv_filtered |-> NoCsv, csv_page |-> NoCsv]

\* Lines 211-270 after a successful load: the sidebar, the limit and the map.
\* The execution stops at line 233 when the concatenation raises.
MapPart(ld, l, a1) ==
    LET deps == Departamentos(ld.gdf)
        admin1 == selectbox(deps, a1)
        sb == SidebarFilter(ld.gdf, admin1)
        base == [Blank EXCEPT !.load_path = ld.path, !.load_warning = ld.warning,
                              !.gdf = ld.gdf, !.departamentos = deps,
                              !.admin1 = admin1]
    IN  IF ~sb.ok
        THEN [base EXCEPT !.stage = "sidebar", !.error = "TypeError"]
        ELSE LET shown == LimitPoints(sb.filtered_for_map)
                 c == Center(shown)
                 cm == create_map(map_cache, shown, c[1], c[2],
                                  TRANSLATIONS[l].click_to_copy)
             IN  [base EXCEPT
                     !.stage = "map",
                     !.municipio_box = IF Truthy(admin1) THEN "options" ELSE "disabled",
                     !.municipios = sb.municipios,
                     !.admin2 = sb.admin2,
                     !.points_on_map = Count(sb.filtered_for_map),
                     !.trunc_warning = Count(sb.filtered_for_map) > MAP_LIMIT,
                     !.filtered_for_map = shown,
                     !.center = c,
                     !.map = cm.map,
                     !.map_cached = cm.hit]

\* Lines 279-354 on the outcome of MapPart: table, search, pages, downloads.
\* The execution stops at line 302 when the search term does not compile.
TablePart(m, l, term, rpp, pg, pg_max) ==
    LET table0 == TableFrame(m.filtered_for_map)
        t0 == [m EXCEPT !.total_records = Count(table0)]
    IN  IF term # <<>> /\ SearchRaises(table0, term)
        THEN [t0 EXCEPT !.stage = "search", !.error = "re.error", !.table_df = table0]
        ELSE LET table_df == IF term # <<>> THEN SearchRows(table0, term) ELSE table0
                 total_pages == TotalPages(Count(table_df), rpp)
                 pagev == number_input(pg, pg_max, total_pages)
                 paginated_df == PageSlice(table_df, rpp, pagev)
             IN  [t0 EXCEPT
                     !.stage = "done",
                     !.found_records = IF term # <<>> THEN Count(table_df) ELSE -1,
                     !.table_df = table_df,
                     !.total_pages = total_pages,
                     !.page = pagev,
                     !.paginated_df = paginated_df,
                     !.csv_filtered = to_csv(table_df, l),
                     !.csv_page = to_csv(paginated_df, l)]

\* One execution of the script, top to bottom.
ScriptOutcome(l, a1, term, rpp, pg, pg_max) ==
    LET ld == load_data(file, load_cache)
    IN  IF ~ld.ok
        THEN [Blank EXCEPT !.stage = "load", !.error = "LoadError",
                           !.load_path = ld.path, !.load_warning = ld.warning]
        ELSE LET m == MapPart(ld, l, a1)
             IN  IF m.error # "none" THEN m
                 ELSE TablePart(m, l, term, rpp, pg, pg_max)

\* The execution together with what it leaves in the caches and the session:
\* a widget the execution did not reach loses its value.
ScriptRun(l, a1, term, rpp, pg, pg_req, pg_max) ==
    /\ run' = ScriptOutcome(l, a1, term, rpp, pg, pg_max)
    /\ lang' = l
    /\ load_cache' = load_data(file, load_cache).cache
    \* create_map stores the map it built under its key; a map taken from the
    \* cache is already there.
    /\ map_cache' = IF run'.stage \in {"map", "search", "done"}
                    THEN map_cache
                         \cup {[key |-> MapKey(run'.filtered_for_map, run'.center[1],
                                               run'.center[2],
                                               TRANSLATIONS[l].click_to_copy),
                                map |-> run'.map]}
                    ELSE map_cache
    /\ admin1_sel' = run'.admin1
    /\ search_term' = IF run'.stage \in {"search", "done"} THEN term ELSE <<>>
    /\ rows_per_page' = IF run'.stage = "done" THEN rpp ELSE DefaultRowsPerPage
    /\ page' = IF run'.stage = "done" THEN run'.page ELSE 1
    /\ page_request' = IF run'.stage = "done" /\ pg_max = run'.total_pages
                       THEN pg_req ELSE 1
    /\ UNCHANGED <<file, na_repr>>

\* The max_value of the page input the session holds a value for.
HeldPageMax == IF run.stage = "done" THEN run.total_pages ELSE 0

\* ----------------------------------------------------------------- actions
SearchTerms == {<<>>, <<"a">>, <<"A">>, <<"n">>, <<".">>, <<"(">>}

Init ==
    /\ file \in [kind : FileKinds, data : Datasets]
    /\ na_repr \in NaRenderings
    /\ load_cache = NoEntry
    /\ map_cache = {}
    /\ lang = DefaultLang
    /\ admin1_sel = PyNone
    /\ search_term = <<>>
    /\ rows_per_page = DefaultRowsPerPage
    /\ page = 1
    /\ page_request = 1
    /\ run = Blank

\* The browser opens the app: the first execution, on the widgets' defaults.
OpenApp ==
    /\ run.stage = "init"
    /\ ScriptRun(lang, admin1_sel, search_term, rows_per_page, page, page_request, 0)

\* The user reruns the app without changing a widget.
Rerun ==
    /\ run.stage # "init"
    /\ ScriptRun(lang, admin1_sel, search_term, rows_per_page, page, page_request,
                 HeldPageMax)

\* The language selectbox (line 80).  Every later widget has the language in
\* its label, so under the other language it is another widget and starts
\* from its default.
SelectLanguage(l) ==
    /\ run.stage # "init"
    /\ l # lang
    /\ ScriptRun(l, PyNone, <<>>, DefaultRowsPerPage, 1, 1, 0)

\* The state selectbox (line 230), shown once the dataset is loaded.
SelectState(s) ==
    /\ run.stage \notin {"init", "load"}
    /\ s \in Range(run.departamentos)
    /\ s # run.admin1
    /\ ScriptRun(lang, s, search_term, rows_per_page, page, page_request, HeldPageMax)

\* The search box (line 296), shown once the map is.
Search(term) ==
    /\ run.stage \in {"search", "done"}
    /\ term # search_term
    /\ ScriptRun(lang, admin1_sel, term, rows_per_page, page, page_request, HeldPageMax)

\* The rows-per-page selectbox (line 308).
SetRowsPerPage(n) ==
    /\ run.stage = "done"
    /\ n # rows_per_page
    /\ ScriptRun(lang, admin1_sel, search_term, n, page, page_request, HeldPageMax)

\* The page input (line 315): a number within min_value..max_value is sent to
\* the script.
SetPage(n) ==
    /\ run.stage = "done"
    /\ n \in 1..run.total_pages
    /\ n # page
    /\ ScriptRun(lang, admin1_sel, search_term, rows_per_page, n, n, HeldPageMax)

\* The page input: a number outside min_value..max_value stays in the box,
\* is reported as invalid and is not sent; the script does not run.
RejectPage(n) ==
    /\ run.stage = "done"
    /\ n \notin 1..run.total_pages
    /\ page_request' = n
    /\ UNCHANGED <<file, na_repr, load_cache, map_cache, lang, admin1_sel,
                   search_term, rows_per_page, page, run>>

\* The file on disk is replaced.  It is read only while load_data has stored
\* nothing, so later replacements are left out.
ReplaceFile(k) ==
    /\ ~load_cache.present
    /\ k # file.kind
    /\ file' = [file EXCEPT !.kind = k]
    /\ UNCHANGED <<na_repr, load_cache, map_cache, lang, admin1_sel, search_term,
                   rows_per_page, page, page_request, run>>

Next ==
    \/ OpenApp
    \/ Rerun
    \/ \E l \in Range(Languages) : SelectLanguage(l)
    \/ \E s \in {r.nombre_entidad : r \in RecordKinds} \ {NA} : SelectState(s)
    \/ \E term \in SearchTerms : Search(term)
    \/ \E n \in Range(page_sizes) : SetRowsPerPage(n)
    \/ \E n \in 0..MaxPageRequest : SetPage(n)
    \/ \E n \in 0..MaxPageRequest : RejectPage(n)
    \/ \E k \in FileKinds : ReplaceFile(k)

Spec == Init /\ [][Next]_vars

\* ------------------------------------------------------------------ claims
\* The hierarchical filter as the specification states it: every row when no
\* state is chosen, the rows of the state when no municipality is chosen, the
\* rows of the state and the municipality otherwise; dataset order.
HierarchicalFilter(gdf, st, mu) ==
    IF ~Truthy(st) THEN gdf
    ELSE IF ~Truthy(mu)
    THEN SelectSeq(gdf, LAMBDA r : r.rec.nombre_entidad = st)
    ELSE SelectSeq(gdf, LAMBDA r : r.rec.nombre_entidad = st
                                   /\ r.rec.nombre_municipio = mu)

\* The execution loaded the dataset.
Loaded == run.load_path \in {"cached", "primary", "fallback"}

\* The execution reached the table (lines 279-299).
Tabled == run.stage \in {"search", "done"}

\* The hierarchical filter result of the selection the execution ran on.
Selected == HierarchicalFilter(run.gdf, run.admin1, run.admin2)

\* C1: whenever the dataset is loaded, the selection (state unset, state only,
\* state and municipality) yields the hierarchical filter result: the
\* execution gets past the sidebar, counts the rows of that result and maps
\* them (up to the limit) in dataset order.
C1_HierarchicalFilterResult ==
    Loaded =>
        /\ run.stage \in {"map", "search", "done"}
        /\ run.points_on_map = Count(Selected)
        /\ run.filtered_for_map = DfHead(Selected, MAP_LIMIT)

\* C2: when the hierarchical filter yields more than 10,000 rows, the map set
\* is its first 10,000 rows with a warning, while the total shown, the table
\* rows before search and the exported CSV still hold every row of it.
C2_CapLeavesTablePath ==
    (Tabled /\ Count(Selected) > MAP_LIMIT) =>
        /\ run.filtered_for_map = DfHead(Selected, MAP_LIMIT)
        /\ run.trunc_warning
        /\ run.total_records = Count(Selected)
        /\ (run.stage = "done" /\ search_term = <<>>) =>
              /\ RowIds(run.table_df) = RowIds(Selected)
              /\ RowIds(run.csv_filtered.lines) = RowIds(Selected)

\* The sorted distinct non-missing municipalities of the rows of a state.
MunicipalitiesOf(gdf, st) ==
    Sorted({gdf[i].rec.nombre_municipio :
               i \in {j \in DOMAIN gdf : gdf[j].rec.nombre_entidad = st}} \ {NA})

\* C3: whenever a state is selected, the municipality options shown are the
\* "all" entry and the sorted distinct non-missing municipalities of that
\* state, and the municipality selection is unset.
C3_MunicipalityOptions ==
    (Loaded /\ Truthy(run.admin1)) =>
        /\ run.municipio_box = "options"
        /\ SelectSeq(run.municipios, Truthy) = MunicipalitiesOf(run.gdf, run.admin1)
        /\ ~Truthy(run.admin2)

\* text.lower() contains term.lower() as a literal substring.
LiteralContains(text, term) ==
    \E i \in 0..(Len(text) - Len(term)) :
        \A j \in DOMAIN term : Lower(term[j]) = Lower(text[i + j])

\* A row matches the term when one of its display columns is present and
\* contains it.
LiteralMatch(rec, term) ==
    \E c \in Range(display_columns) : rec[c] # NA /\ LiteralContains(rec[c], term)

\* C4: for a non-empty search term the table keeps exactly the rows of which a
\* display column, as text, contains the term literally and case-insensitively;
\* a missing cell matches no term.
C4_SearchIsLiteral ==
    (Tabled /\ search_term # <<>>) =>
        /\ run.stage = "done"
        /\ run.table_df =
              SelectSeq(TableFrame(run.filtered_for_map),
                        LAMBDA r : LiteralMatch(r.rec, search_term))

\* C5: the rows given to the map, the center and the point count depend on
\* the dataset and the state / municipality selection only, and with an empty
\* search term the table rows are the hierarchical filter result.
C5_MapIgnoresSearch ==
    Tabled =>
        /\ run.filtered_for_map = DfHead(Selected, MAP_LIMIT)
        /\ run.center = Center(DfHead(Selected, MAP_LIMIT))
        /\ run.points_on_map = Count(Selected)
        /\ (run.stage = "done" /\ search_term = <<>>) =>
              RowIds(run.table_df) = RowIds(Selected)

\* ceil(n / d) for n >= 0, d > 0.
CeilDiv(n, d) == IF n % d = 0 THEN n \div d ELSE n \div d + 1

\* The page count and the page range, common to C6 as claimed and as amended.
PageCountAndRange ==
    /\ rows_per_page \in Range(page_sizes)
    /\ run.total_pages = Max(1, CeilDiv(Count(run.table_df), rows_per_page))
    /\ page = run.page
    /\ run.page \in 1..run.total_pages

RECURSIVE ConcatPages(_, _, _, _)
ConcatPages(df, rpp, from, to) ==
    IF from > to THEN <<>>
    ELSE IF from = to THEN PageSlice(df, rpp, from)
    ELSE LET mid == (from + to) \div 2
         IN  DfConcat(ConcatPages(df, rpp, from, mid),
                      ConcatPages(df, rpp, mid + 1, to))

\* C7: the page shown holds the rows at positions (n-1)*pageSize up to
\* min(n*pageSize, len) of the table rows, pages 1..totalPages one after the
\* other are the table rows, and every page but the last has pageSize rows.
C7_PagesCoverResult ==
    run.stage = "done" =>
        LET R == run.table_df
            len == Count(R)
            first == (run.page - 1) * rows_per_page
            last == Min(run.page * rows_per_page, len)
        IN  /\ Count(run.paginated_df) = Max(last - first, 0)
            /\ run.paginated_df # <<>> =>
                  /\ run.paginated_df[1].lo = LabelAt(R, first)
                  /\ run.paginated_df[Len(run.paginated_df)].hi = LabelAt(R, last - 1)
            /\ ConcatPages(R, rows_per_page, 1, run.total_pages) = R
            /\ \A n \in 1..(run.total_pages - 1) :
                  Count(PageSlice(R, rows_per_page, n)) = rows_per_page

\* The last of three or more pages is shown and is not full.
C7_Witness ==
    /\ run.stage = "done"
    /\ run.total_pages >= 3
    /\ run.page = run.total_pages
    /\ Count(run.table_df) % rows_per_page # 0
    /\ Len(run.table_df) >= 2

\* C8: a load ends in one of three ways: the primary parse succeeds (no
\* warning, the file's data), the fallback parse succeeds (a warning, the
\* file's data, the execution goes on), or both fail (the execution stops in
\* the load and shows nothing later); a failed load stores nothing.
C8_LoadOutcomes ==
    /\ run.stage # "init" => run.load_path \in {"cached", "primary", "fallback", "failed"}
    /\ run.load_path = "primary" =>
          /\ file.kind = "parquet" /\ ~run.load_warning
          /\ run.gdf = file.data /\ run.stage # "load"
    /\ run.load_path = "fallback" =>
          /\ file.kind = "geojson" /\ run.load_warning
          /\ run.gdf = file.data /\ run.stage # "load"
    /\ run.load_path = "cached" =>
          /\ run.gdf = load_cache.gdf /\ run.load_warning = load_cache.warned
          /\ run.stage # "load"
    /\ run.load_path = "failed" <=> run.error = "LoadError"
    /\ run.load_path = "failed" =>
          /\ ~load_cache.present
          /\ run = [Blank EXCEPT !.stage = "load", !.error = "LoadError",
                                 !.load_path = "failed", !.load_warning = TRUE]
    /\ load_cache.present =>
          /\ load_cache.gdf = file.data
          /\ load_cache.warned = (file.kind = "geojson")
          /\ file.kind # "corrupt"
    /\ ~load_cache.present => run.stage \in {"init", "load"}

\* The fallback parse succeeded, its warning is shown and the execution ended.
C8_Witness ==
    /\ run.load_path = "fallback"
    /\ run.load_warning
    /\ run.stage = "done"
    /\ run.gdf # <<>>

\* C9: every execution on a loaded dataset runs to the end without an error.
C9_PipelineCompletes ==
    Loaded => run.error = "none" /\ run.stage = "done"

\* The execution showed a map.
Mapped == run.stage \in {"map", "search", "done"}

====
